---- MODULE Spec2Model ----
(***************************************************************************)
(* A model of package nann: DenseLayer, Model (AddLayer, Shape,            *)
(* InitWeights, Forward), the activation functions and Fixed8.             *)
(*                                                                         *)
(* float32 values are modelled as fixed-point numbers: the integer v       *)
(* stands for the real v / Unit.  Products and quotients are rounded to    *)
(* the nearest multiple of 1 / Unit, sums are exact.                       *)
(*                                                                         *)
(* A Go slice is a header [buf, len] over a backing array heap[buf]; the   *)
(* capacity of the slice is the length of the backing array (all slices    *)
(* start at offset 0).  Two slices with the same buf share storage.  A     *)
(* backing array allocated by slices.Grow has exactly the capacity asked   *)
(* for.  A panic ends the call and is recorded as the call's err.          *)
(*                                                                         *)
(* Of the activation functions Ident and LRelu are modelled; Sigmoid and   *)
(* Softmax need exp and are left out.                                      *)
(***************************************************************************)
EXTENDS Integers, Sequences, FiniteSets, TLC

VARIABLES Layers, Biases, ActivFn, nAdd, last

vars == <<Layers, Biases, ActivFn, nAdd, last>>

(***************************************************************************)
(* Bounds of the model.                                                    *)
(***************************************************************************)
MaxLayers == 2
MaxDim == 2
MaxCap == 2

(***************************************************************************)
(* float32 as fixed point.                                                 *)
(***************************************************************************)
Unit == 64

RoundDiv(n, d) == (2 * n + d) \div (2 * d)

FromInt(n) == n * Unit

FMul(a, b) == RoundDiv(a * b, Unit)

FDiv(a, b) == RoundDiv(a * Unit, b)

\* The largest r in lo..hi with r * r <= n.
RECURSIVE SqrtSearch(_, _, _)
SqrtSearch(n, lo, hi) ==
    IF lo >= hi
    THEN lo
    ELSE LET mid == (lo + hi + 1) \div 2
         IN  IF mid * mid <= n THEN SqrtSearch(n, mid, hi) ELSE SqrtSearch(n, lo, mid - 1)

FSqrt(a) == SqrtSearch(a * Unit, 0, a + Unit)

\* func sqrt / func xavier
xavier(in, out) == FSqrt(FDiv(FromInt(6), FromInt(in) + FromInt(out)))

(***************************************************************************)
(* Activation functions (Ident and LRelu).                                 *)
(***************************************************************************)
ActivNames == {"Ident", "LRelu"}

Apply(a, x) ==
    IF a = "LRelu"
    THEN IF x < 0 THEN FDiv(x, FromInt(64)) ELSE x
    ELSE x

(***************************************************************************)
(* Panics.                                                                 *)
(***************************************************************************)
NoErr == <<>>

RECURSIVE FormatInt(_)
FormatInt(n) ==
    IF n < 10
    THEN <<n>>
    ELSE Append(FormatInt(n \div 10), n % 10)

ShapeMismatchIn(n) == <<"shape mismatch (", FormatInt(n), ", _)">>

ShapeMismatchOut(n) == <<"shape mismatch (_, ", FormatInt(n), ")">>

IndexOutOfRange == <<"index out of range">>

(***************************************************************************)
(* DenseLayer.                                                             *)
(***************************************************************************)
NewDenseLayer(fanIn, fanOut) == [i \in 1..fanIn |-> [j \in 1..fanOut |-> 0]]

Shape(l) == <<Len(l), Len(l[1])>>

\* out[j] = l[i][j] * x: the product stored, not accumulated
RowAcc_Overwrite(arr, row, x, n) ==
    [j \in 1..Len(arr) |-> IF j <= n THEN FMul(row[j], x) ELSE arr[j]]

\* The inner loop of DenseLayer.Forward for one input element x:
\* out[j] += l[i][j] * x for every j of out.
RowAcc(arr, row, x, n) ==
    [j \in 1..Len(arr) |-> IF j <= n THEN arr[j] + FMul(row[j], x) ELSE arr[j]]

\* The outer loop: in[i] is read from the backing array when iteration i
\* starts, so it sees what earlier iterations wrote when in and out share
\* storage.
RECURSIVE ForwardRows(_, _, _, _, _)
ForwardRows(l, heap, in, out, i) ==
    IF i > in.len
    THEN heap
    ELSE LET x == heap[in.buf][i]
         IN  ForwardRows(l, [heap EXCEPT ![out.buf] = RowAcc(@, l[i], x, out.len)],
                         in, out, i + 1)

\* The two length checks in the other order.
DenseForward_OutFirst(l, heap, in, out) ==
    IF out.len # Len(l[1])
    THEN [err |-> ShapeMismatchOut(out.len), heap |-> heap, ret |-> out]
    ELSE IF in.len # Len(l)
    THEN [err |-> ShapeMismatchIn(in.len), heap |-> heap, ret |-> out]
    ELSE [err |-> NoErr, heap |-> ForwardRows(l, heap, in, out, 1), ret |-> out]

DenseForward(l, heap, in, out) ==
    IF in.len # Len(l)
    THEN [err |-> ShapeMismatchIn(in.len), heap |-> heap, ret |-> out]
    ELSE IF out.len # Len(l[1])
    THEN [err |-> ShapeMismatchOut(out.len), heap |-> heap, ret |-> out]
    ELSE [err |-> NoErr, heap |-> ForwardRows(l, heap, in, out, 1), ret |-> out]

(***************************************************************************)
(* The random source: a *rand.Rand handed in by the caller.  Its state     *)
(* steps once per draw and it records the kind of every draw made.         *)
(***************************************************************************)
RandNext(s) == (5 * s + 3) % 16

NewRand(seed) == [state |-> seed, calls |-> <<>>]

\* r.Float32(): a value in [0, 1)
RandFloat32(r) ==
    [val |-> (r.state \div 4) * (Unit \div 4),
     r |-> [state |-> RandNext(r.state), calls |-> Append(r.calls, "Float32")]]

\* r.NormFloat64()
RandNormFloat64(r) ==
    [val |-> FromInt((r.state % 4) - 1),
     r |-> [state |-> RandNext(r.state), calls |-> Append(r.calls, "NormFloat64")]]

\* DenseLayer.InitWeights, the loop over one row.
RECURSIVE InitRow(_, _, _, _)
InitRow(row, fanIn, r, j) ==
    IF j > Len(row)
    THEN [row |-> row, r |-> r]
    ELSE LET d == RandFloat32(r)
             w == FMul(2 * d.val - FromInt(1), xavier(fanIn, Len(row)))
         IN  InitRow([row EXCEPT ![j] = w], fanIn, d.r, j + 1)

\* DenseLayer.InitWeights, the loop over the rows.
RECURSIVE InitRows(_, _, _)
InitRows(l, r, i) ==
    IF i > Len(l)
    THEN [l |-> l, r |-> r]
    ELSE LET row == InitRow(l[i], Len(l), r, 1)
         IN  InitRows([l EXCEPT ![i] = row.row], row.r, i + 1)

DenseInitWeights(l, r) == InitRows(l, r, 1)

(***************************************************************************)
(* Model.                                                                  *)
(***************************************************************************)
\* Model.InitWeights, the loop over the biases.
RECURSIVE InitBiases(_, _, _)
InitBiases(biases, r, i) ==
    IF i > Len(biases)
    THEN [biases |-> biases, r |-> r]
    ELSE LET d == RandNormFloat64(r)
         IN  InitBiases([biases EXCEPT ![i] = FDiv(d.val, FromInt(64))], d.r, i + 1)

\* Model.InitWeights, the loop over the layers.
RECURSIVE InitLayers(_, _, _)
InitLayers(layers, r, k) ==
    IF k > Len(layers)
    THEN [layers |-> layers, r |-> r]
    ELSE LET d == DenseInitWeights(layers[k], r)
         IN  InitLayers([layers EXCEPT ![k] = d.l], d.r, k + 1)

\* The layers' weights drawn before the biases.
ModelInitWeights_WeightsFirst(layers, biases, r) ==
    LET w == InitLayers(layers, r, 1)
        b == InitBiases(biases, w.r, 1)
    IN  [layers |-> w.layers, biases |-> b.biases, r |-> b.r]

ModelInitWeights(layers, biases, r) ==
    LET b == InitBiases(biases, r, 1)
        w == InitLayers(layers, b.r, 1)
    IN  [layers |-> w.layers, biases |-> b.biases, r |-> w.r]

\* Both dimensions taken from the first layer.
ModelShape_FirstLayer(layers) ==
    IF Len(layers) = 0
    THEN [err |-> IndexOutOfRange, ret |-> <<>>]
    ELSE [err |-> NoErr, ret |-> Shape(layers[1])]

ModelShape(layers) ==
    IF Len(layers) = 0
    THEN [err |-> IndexOutOfRange, ret |-> <<>>]
    ELSE [err |-> NoErr, ret |-> <<Shape(layers[1])[1], Shape(layers[Len(layers)])[2]>>]

Zeros(n) == [i \in 1..n |-> 0]

\* slices.Grow(s, n): room for n more elements; a new backing array when the
\* capacity does not suffice, holding the old array's elements and zeros.
Grow(heap, s, n) ==
    LET need == n - (Len(heap[s.buf]) - s.len)
    IN  IF need > 0
        THEN [heap |-> Append(heap, heap[s.buf] \o Zeros(need)),
              s |-> [buf |-> Len(heap) + 1, len |-> s.len], grew |-> TRUE]
        ELSE [heap |-> heap, s |-> s, grew |-> FALSE]

\* The resize without the truncating branch.
Resize_GrowOnly(heap, out, n) ==
    IF n > out.len
    THEN LET g == Grow(heap, out, n - out.len)
         IN  [heap |-> g.heap, s |-> [g.s EXCEPT !.len = n], grew |-> g.grew]
    ELSE [heap |-> heap, s |-> out, grew |-> FALSE]

\* The resize of out to fanOut at the head of the loop of Model.Forward.
Resize(heap, out, n) ==
    IF n < out.len
    THEN [heap |-> heap, s |-> [out EXCEPT !.len = n], grew |-> FALSE]
    ELSE IF n > out.len
    THEN LET g == Grow(heap, out, n - out.len)
         IN  [heap |-> g.heap, s |-> [g.s EXCEPT !.len = n], grew |-> g.grew]
    ELSE [heap |-> heap, s |-> out, grew |-> FALSE]

\* out[i] = a.Apply(x + b) for every element of out
Activate(arr, n, a, b) ==
    [j \in 1..Len(arr) |-> IF j <= n THEN Apply(a, arr[j] + b) ELSE arr[j]]

\* in, out = out, in
Swap_OutKept(in, out) == [in |-> out, out |-> out]

Swap(in, out) == [in |-> out, out |-> in]

\* The loop of Model.Forward from layer i on.  steps records, for every
\* layer evaluated, the slice it read, the slice it wrote and whether the
\* resize allocated.
RECURSIVE ForwardLoop(_, _, _, _, _, _, _, _)
ForwardLoop(layers, biases, activ, heap, in, out, i, steps) ==
    IF i > Len(layers)
    THEN [err |-> IndexOutOfRange, heap |-> heap, ret |-> out, steps |-> steps]
    ELSE
    LET l == layers[i]
        fanOut == Shape(l)[2]
        rz == Resize(heap, out, fanOut)
        f == DenseForward(l, rz.heap, in, rz.s)
    IN  IF f.err # NoErr
        THEN [err |-> f.err, heap |-> f.heap, ret |-> f.ret, steps |-> steps]
        ELSE LET h == [f.heap EXCEPT ![f.ret.buf] = Activate(@, f.ret.len, activ[i], biases[i])]
                 st == Append(steps, [in |-> in, out |-> f.ret, grew |-> rz.grew])
             IN  IF i + 1 <= Len(layers)
                 THEN LET sw == Swap(in, f.ret)
                      IN  ForwardLoop(layers, biases, activ, h, sw.in, sw.out, i + 1, st)
                 ELSE [err |-> NoErr, heap |-> h, ret |-> f.ret, steps |-> st]

\* A layer's panic recovered: the buffer at hand is returned.
ModelForward_Recovered(layers, biases, activ, heap, in, out) ==
    [ForwardLoop(layers, biases, activ, heap, in, out, 1, <<>>) EXCEPT !.err = NoErr]

ModelForward(layers, biases, activ, heap, in, out) ==
    ForwardLoop(layers, biases, activ, heap, in, out, 1, <<>>)

(***************************************************************************)
(* Fixed8.                                                                 *)
(***************************************************************************)
Int8 == -128..127

\* float32(x / 8): the division done on the integer
Fixed8Float32_IntDiv(x) == FromInt(x \div 8)

Fixed8Float32(x) == FDiv(FromInt(x), FromInt(8))

(***************************************************************************)
(* Caller-side inputs.                                                     *)
(***************************************************************************)
Fills == {0, 1}

\* The seeds of the random sources handed to InitWeights, and the one seed
\* used where a model is also evaluated.
Seeds == {0, 6, 9, 15}

FixedSeeds == {6}

\* A caller's backing array of capacity c: zeros (f = 0), or f, 2f, ...
Arr(c, f) == [i \in 1..c |-> FromInt(f * i)]

\* The two arrays a caller holds: array 1 for the input, array 2 for the output.
CallerHeaps == {<<Arr(ci, 1), Arr(co, f)>> : ci \in 0..MaxCap, co \in 0..MaxCap, f \in Fills}

\* The layers a client builds: every shape up to MaxDim, with the activation
\* it pairs the layer with (both activations occur among the shapes).
LayerKinds ==
    {<<fanIn, fanOut, IF (fanIn + fanOut) % 2 = 0 THEN "Ident" ELSE "LRelu">> :
        fanIn \in 1..MaxDim, fanOut \in 1..MaxDim}

\* The slices over array b of a heap.
SlicesOf(heap, b) == {[buf |-> b, len |-> n] : n \in 0..Len(heap[b])}

(***************************************************************************)
(* The state machine: a client that makes one call at a time.  last holds  *)
(* the call in progress with its arguments and its outcome; Return hands   *)
(* control back to the client.                                             *)
(***************************************************************************)
Idle == last.op = "idle"

Init ==
    /\ Layers = <<>>
    /\ Biases = <<>>
    /\ ActivFn = <<>>
    /\ nAdd = 0
    /\ last = [op |-> "idle"]

\* The new stage put in front of the others.
AddLayer_Prepend(fanIn, fanOut, a) ==
    /\ last.op = "idle"
    /\ Layers' = <<NewDenseLayer(fanIn, fanOut)>> \o Layers
    /\ Biases' = <<0>> \o Biases
    /\ ActivFn' = <<a>> \o ActivFn
    /\ nAdd' = nAdd + 1
    /\ last' = [op |-> "AddLayer", fanIn |-> fanIn, fanOut |-> fanOut, a |-> a, err |-> NoErr]

\* m.AddLayer(NewDenseLayer(fanIn, fanOut), a)
AddLayer(fanIn, fanOut, a) ==
    /\ Idle
    /\ Layers' = Append(Layers, NewDenseLayer(fanIn, fanOut))
    /\ Biases' = Append(Biases, 0)
    /\ ActivFn' = Append(ActivFn, a)
    /\ nAdd' = nAdd + 1
    /\ last' = [op |-> "AddLayer", fanIn |-> fanIn, fanOut |-> fanOut, a |-> a, err |-> NoErr]

\* m.Shape()
CallShape ==
    /\ Idle
    /\ last' = [op |-> "Shape"] @@ ModelShape(Layers)
    /\ UNCHANGED <<Layers, Biases, ActivFn, nAdd>>

\* m.InitWeights(r) with r a fresh source seeded by the caller
CallInitWeights(seed) ==
    /\ Idle
    /\ LET res == ModelInitWeights(Layers, Biases, NewRand(seed))
       IN  /\ Layers' = res.layers
           /\ Biases' = res.biases
           /\ last' = [op |-> "InitWeights", err |-> NoErr, seed |-> seed, r |-> res.r]
    /\ UNCHANGED <<ActivFn, nAdd>>

\* m.Forward(in, out)
CallForward(heap, in, out) ==
    /\ Idle
    /\ last' = [op |-> "Forward", heap0 |-> heap, in |-> in, out |-> out]
                 @@ ModelForward(Layers, Biases, ActivFn, heap, in, out)
    /\ UNCHANGED <<Layers, Biases, ActivFn, nAdd>>

\* m.Layers[k].Forward(in, out)
CallLayerForward(k, heap, in, out) ==
    /\ Idle
    /\ k \in 1..Len(Layers)
    /\ last' = [op |-> "LayerForward", k |-> k, heap0 |-> heap, in |-> in, out |-> out]
                 @@ DenseForward(Layers[k], heap, in, out)
    /\ UNCHANGED <<Layers, Biases, ActivFn, nAdd>>

\* Fixed8(x).Float32()
CallFloat32(x) ==
    /\ Idle
    /\ last' = [op |-> "Float32", x |-> x, err |-> NoErr, ret |-> Fixed8Float32(x)]
    /\ UNCHANGED <<Layers, Biases, ActivFn, nAdd>>

Return ==
    /\ ~Idle
    /\ last' = [op |-> "idle"]
    /\ UNCHANGED <<Layers, Biases, ActivFn, nAdd>>

\* The calls on a Model.
Next ==
    \/ /\ Len(Layers) < MaxLayers
       /\ \E kind \in LayerKinds : AddLayer(kind[1], kind[2], kind[3])
    \/ CallShape
    \/ \E seed \in FixedSeeds : CallInitWeights(seed)
    \/ \E heap \in CallerHeaps :
           \E in \in SlicesOf(heap, 1), out \in SlicesOf(heap, 2) \cup {[buf |-> 1, len |-> Len(heap[1])]} :
               CallForward(heap, in, out)
    \/ Return

Spec == Init /\ [][Next]_vars

\* Building and initialising a Model.
NextInit ==
    \/ /\ Len(Layers) < MaxLayers
       /\ \E kind \in LayerKinds : AddLayer(kind[1], kind[2], kind[3])
    \/ \E seed \in Seeds : CallInitWeights(seed)
    \/ Return

SpecInit == Init /\ [][NextInit]_vars

\* The calls on one DenseLayer, held as the only layer of a model.
NextLayer ==
    \/ /\ Len(Layers) < 1
       /\ \E kind \in LayerKinds : AddLayer(kind[1], kind[2], kind[3])
    \/ \E seed \in Seeds : CallInitWeights(seed)
    \/ \E heap \in CallerHeaps :
           \E in \in SlicesOf(heap, 1), out \in SlicesOf(heap, 1) \cup SlicesOf(heap, 2) :
               CallLayerForward(1, heap, in, out)
    \/ Return

SpecLayer == Init /\ [][NextLayer]_vars

\* The calls on a Fixed8.
NextFixed8 ==
    \/ \E x \in Int8 : CallFloat32(x)
    \/ Return

SpecFixed8 == Init /\ [][NextFixed8]_vars

(***************************************************************************)
(* Properties.                                                             *)
(***************************************************************************)
RECURSIVE SumTo(_, _)
SumTo(f, n) == IF n = 0 THEN 0 ELSE SumTo(f, n - 1) + f[n]

\* sum over i of x[i] * W[i][j]
Dot(W, x, j) == SumTo([i \in 1..Len(W) |-> FMul(W[i][j], x[i])], Len(W))

\* The elements a slice shows.
Elems(heap, s) == [j \in 1..s.len |-> heap[s.buf][j]]

FanIn(k) == Len(Layers[k])

FanOut(k) == Len(Layers[k][1])

\* C8: Fixed8 decoding is total and exact: for every stored s in -128..127
\* Float32 returns s / 8 without error, within [-16, 15.875]; distinct stored
\* values decode to distinct results and consecutive ones differ by 0.125.
C8_Fixed8Exact ==
    last.op = "Float32" =>
        /\ last.err = NoErr
        /\ 8 * last.ret = FromInt(last.x)
        /\ FromInt(-16) <= last.ret
        /\ 8 * last.ret <= FromInt(127)
        /\ \A t \in Int8 \ {last.x} : Fixed8Float32(t) # last.ret
        /\ last.x < 127 => 8 * (Fixed8Float32(last.x + 1) - last.ret) = FromInt(1)

C8_Witness == last.op = "Float32" /\ last.x = -13 /\ 8 * last.ret = FromInt(-13)

\* The sum DenseLayer.Forward is claimed to leave in out, from the contents
\* before the call.
AccumulatedOut ==
    [j \in 1..last.out.len |->
        last.heap0[last.out.buf][j]
            + Dot(Layers[last.k], Elems(last.heap0, last.in), j)]

\* C2 as stated: for every input of length fanIn and every output buffer of
\* length fanOut, after DenseLayer.Forward out[j] = out_before[j] + sum over i
\* of in[i] * W[i][j], and the buffer passed as out is returned.
C2_Accumulates_AnyBuffers ==
    (last.op = "LayerForward" /\ last.err = NoErr) =>
        /\ Elems(last.heap, last.out) = AccumulatedOut
        /\ last.ret = last.out

\* C2 amended: the same, for an output buffer that shares no storage with the
\* input.
C2_Accumulates ==
    (last.op = "LayerForward" /\ last.err = NoErr /\ last.in.buf # last.out.buf) =>
        /\ Elems(last.heap, last.out) = AccumulatedOut
        /\ last.ret = last.out

C2_Witness ==
    /\ last.op = "LayerForward"
    /\ last.err = NoErr
    /\ last.in.buf # last.out.buf
    /\ last.in.len = 2
    /\ last.out.len = 2
    /\ \A j \in 1..2 : last.heap0[last.out.buf][j] # 0
    /\ \A j \in 1..2 : last.heap[last.out.buf][j] # last.heap0[last.out.buf][j]
    /\ \A j \in 1..2 : last.heap[last.out.buf][j] # Dot(Layers[last.k], Elems(last.heap0, last.in), j)

\* C3: DenseLayer.Forward rejects mis-shaped buffers before doing any work:
\* a wrong len(in) gives the input-side shape mismatch carrying len(in);
\* otherwise a wrong len(out) gives the output-side one carrying len(out);
\* no element of any buffer has been modified then, and the call succeeds
\* exactly when both lengths match.
C3_ShapeChecks ==
    last.op = "LayerForward" =>
        IF last.in.len # FanIn(last.k)
        THEN /\ last.err = <<"shape mismatch (", <<last.in.len>>, ", _)">>
             /\ last.heap = last.heap0
        ELSE IF last.out.len # FanOut(last.k)
        THEN /\ last.err = <<"shape mismatch (_, ", <<last.out.len>>, ")">>
             /\ last.heap = last.heap0
        ELSE last.err = NoErr

C3_Witness ==
    /\ last.op = "LayerForward"
    /\ last.in.len # FanIn(last.k)
    /\ last.out.len # FanOut(last.k)
    /\ last.err = <<"shape mismatch (", <<last.in.len>>, ", _)">>

\* C7: Model.Shape returns (fanIn of the first layer, fanOut of the last
\* layer) for every model with at least one layer, and fails with an index
\* out of range error, returning no value, on a model without layers.
C7_Shape ==
    last.op = "Shape" =>
        IF Len(Layers) = 0
        THEN last.err = <<"index out of range">> /\ last.ret = <<>>
        ELSE last.err = NoErr /\ last.ret = <<FanIn(1), FanOut(Len(Layers))>>

C7_Witness ==
    /\ last.op = "Shape"
    /\ Len(Layers) = 2
    /\ FanOut(1) # FanOut(2)
    /\ FanIn(1) # FanIn(2)
    /\ last.ret = <<FanIn(1), FanOut(2)>>

\* C4: after any sequence of AddLayer, InitWeights and Forward calls the
\* sequences Layers, Biases and ActivFn have the same length, the number of
\* AddLayer calls made; each AddLayer appends its (layer, bias 0, activation)
\* triple at the end, leaves the earlier triples unchanged, and succeeds
\* whatever the new layer's fanIn is.
C4_ParallelSequences ==
    /\ [](Len(Layers) = nAdd /\ Len(Biases) = nAdd /\ Len(ActivFn) = nAdd)
    /\ [](last.op = "AddLayer" => last.err = NoErr)
    /\ [][last'.op = "AddLayer" =>
            /\ nAdd' = nAdd + 1
            /\ Layers' = Append(Layers, [i \in 1..last'.fanIn |-> [j \in 1..last'.fanOut |-> 0]])
            /\ Biases' = Append(Biases, 0)
            /\ ActivFn' = Append(ActivFn, last'.a)]_vars
    /\ [][last'.op # "AddLayer" => nAdd' = nAdd]_vars

\* A layer added behind one whose fanOut is not its fanIn, after InitWeights
\* and Forward calls.
C4_Witness ==
    /\ last.op = "AddLayer"
    /\ nAdd = 2
    /\ Len(Layers) = 2
    /\ FanOut(1) # FanIn(2)
    /\ Biases[1] # 0
    /\ Biases[2] = 0
    /\ ActivFn[1] # ActivFn[2]

\* The state of the random source after n draws.
RECURSIVE StateAt(_, _)
StateAt(seed, n) == IF n = 0 THEN seed ELSE (5 * StateAt(seed, n - 1) + 3) % 16

\* The number of weights of the layers before layer k.
RECURSIVE WeightsBefore(_)
WeightsBefore(k) == IF k = 1 THEN 0 ELSE WeightsBefore(k - 1) + FanIn(k - 1) * FanOut(k - 1)

\* The index of the draw (from 0) that decides weight (i, j) of layer k.
DrawOfWeight(k, i, j) ==
    Len(Layers) + WeightsBefore(k) + (i - 1) * FanOut(k) + (j - 1)

\* C6: Model.InitWeights consumes the random source in a fixed order: one
\* standard-normal draw per bias in layer order (bias = draw / 64), then per
\* layer in layer order one uniform draw per weight in row-major order; no
\* bias draw follows a weight draw and L + sum of fanIn * fanOut draws are
\* made, so that biases and weights are a function of the model's structure
\* and of the draw sequence alone.
C6_DrawOrder ==
    last.op = "InitWeights" =>
        LET L == Len(Layers)
            total == L + WeightsBefore(L + 1)
            at(n) == [state |-> StateAt(last.seed, n), calls |-> <<>>]
        IN  /\ last.r.calls = [n \in 1..total |-> IF n <= L THEN "NormFloat64" ELSE "Float32"]
            /\ last.r.state = StateAt(last.seed, total)
            /\ \A k \in 1..L :
                   Biases[k] = FDiv(RandNormFloat64(at(k - 1)).val, FromInt(64))
            /\ \A k \in 1..L : \A i \in 1..FanIn(k) : \A j \in 1..FanOut(k) :
                   Layers[k][i][j] =
                       FMul(2 * RandFloat32(at(DrawOfWeight(k, i, j))).val - FromInt(1),
                            xavier(FanIn(k), FanOut(k)))

C6_Witness ==
    /\ last.op = "InitWeights"
    /\ Len(Layers) = 2
    /\ FanIn(1) = 2 /\ FanOut(1) = 2
    /\ FanIn(2) = 2 /\ FanOut(2) = 1
    /\ Len(last.r.calls) = 8
    /\ Biases[1] # Biases[2]
    /\ Layers[1][1][2] # Layers[1][2][1]

\* The length of the vector fed to layer k of a Forward call: the input's for
\* the first layer, the previous layer's fanOut for the others.
FedLen(k) == IF k = 1 THEN last.in.len ELSE FanOut(k - 1)

\* The layers compose and the input fits the first one.
Composable == \A k \in 1..Len(Layers) : FanIn(k) = FedLen(k)

FirstMismatch == CHOOSE k \in 1..Len(Layers) : FanIn(k) # FedLen(k) /\ \A h \in 1..(k - 1) : FanIn(h) = FedLen(h)

\* y_k of the sequential composition: y_0 = x,
\* y_{k+1}[j] = ActivFn[k].Apply((sum over i of y_k[i] * W_k[i][j]) + Biases[k])
RECURSIVE LayerOutput(_, _)
LayerOutput(k, x) ==
    IF k = 0
    THEN x
    ELSE LET y == LayerOutput(k - 1, x)
         IN  [j \in 1..FanOut(k) |-> Apply(ActivFn[k], Dot(Layers[k], y, j) + Biases[k])]

\* C1: Model.Forward computes the sequential composition of its layers: for
\* a model of L >= 1 composable layers, an input of length fanIn of the first
\* layer and a distinct all-zero scratch buffer, the returned vector is y_L;
\* earlier buffer contents contribute nothing.
C1_SequentialComposition ==
    (/\ last.op = "Forward"
     /\ Len(Layers) >= 1
     /\ Composable
     /\ last.out.buf # last.in.buf
     /\ \A j \in 1..Len(last.heap0[last.out.buf]) : last.heap0[last.out.buf][j] = 0) =>
        /\ last.err = NoErr
        /\ Elems(last.heap, last.ret) = LayerOutput(Len(Layers), Elems(last.heap0, last.in))

\* C5: a layer-composition violation always surfaces as a shape mismatch at
\* forward time: if len(input) is not fanIn of the first layer, or some
\* layer's fanOut is not the next layer's fanIn, Model.Forward returns no
\* result; it fails with the input-side shape mismatch at the first layer
\* whose fanIn differs from the length of the vector fed to it, after all
\* earlier layers have been evaluated.
C5_MismatchSurfaces ==
    (last.op = "Forward" /\ Len(Layers) >= 1 /\ ~Composable) =>
        /\ last.err = <<"shape mismatch (", <<FedLen(FirstMismatch)>>, ", _)">>
        /\ Len(last.steps) = FirstMismatch - 1

\* The input fits, the first layer is evaluated, the second refuses its output.
C5_Witness ==
    /\ last.op = "Forward"
    /\ Len(Layers) = 2
    /\ FanIn(1) = last.in.len
    /\ FanOut(1) # FanIn(2)
    /\ Len(last.steps) = 1
    /\ last.err # NoErr

\* C9: in Model.Forward, for caller buffers of any length and capacity, the
\* buffer handed to layer k's Forward as its output has length fanOut of
\* layer k; the output-side shape mismatch is never raised from Model.Forward
\* and a successful call returns a vector of length fanOut of the last layer.
C9_OutputLength ==
    (last.op = "Forward" /\ Len(Layers) >= 1) =>
        /\ \A k \in 1..Len(last.steps) : last.steps[k].out.len = FanOut(k)
        /\ last.err # NoErr => /\ last.ret.len = FanOut(Len(last.steps) + 1)
                               /\ last.err[1] # "shape mismatch (_, "
        /\ last.err = NoErr => /\ Len(last.steps) = Len(Layers)
                               /\ last.ret.len = FanOut(Len(Layers))

\* The caller's out is truncated for the first layer and the buffer of the
\* second layer is grown.
C9_Witness ==
    /\ last.op = "Forward"
    /\ last.err = NoErr
    /\ Len(Layers) = 2
    /\ last.out.len > FanOut(1)
    /\ last.steps[2].grew
    /\ last.ret.len = FanOut(2)

NoGrowth == \A k \in 1..Len(last.steps) : ~last.steps[k].grew

====
